---- MODULE Spec2Model ----
(***************************************************************************)
(* A model of exchange_core: the data model of interface.py (Position,     *)
(* Order, Ticker, OHLCV, Orderbook with best_ask / best_bid) and the       *)
(* Hyperliquid adapter of hyperliquid.py (create, the eight delegating     *)
(* operations and close), each operation a coroutine that makes one        *)
(* backend call, suspends, and reshapes the response when it is resumed.   *)
(*                                                                         *)
(* Numbers are integers in an arbitrary fixed unit: a Python float or int  *)
(* of value n is n.  A value the backend hands over is a raw value: None,  *)
(* a number, a string that spells a number, or any other string.           *)
(***************************************************************************)
EXTENDS Integers, Sequences, FiniteSets

VARIABLES handle, adapter, task

vars == <<handle, adapter, task>>

-----------------------------------------------------------------------------
(* Bounds of the model.                                                    *)

MaxHandles == 2
MaxTasks == 2
MaxPositions == 2
MaxLevels == 2
MaxRows == 1

Handles == 1..MaxHandles
Tasks == 1..MaxTasks

-----------------------------------------------------------------------------
(* Raw backend values and Python's conversions of them.                    *)

PyNone == [t |-> "none", n |-> 0, s |-> ""]
Num(n) == [t |-> "num", n |-> n, s |-> ""]
NumStr(n) == [t |-> "numstr", n |-> n, s |-> ""]
Text(s) == [t |-> "text", n |-> 0, s |-> s]

\* Python truthiness, as `x or 0` and `if x` use it: None, 0 and "" are falsy.
Truthy(x) ==
    CASE x.t = "none" -> FALSE
      [] x.t = "num" -> x.n # 0
      [] x.t = "numstr" -> TRUE
      [] x.t = "text" -> x.s # ""

\* float(x) raises TypeError on None and ValueError on a string that spells no number.
FloatError(x) ==
    CASE x.t = "none" -> "TypeError"
      [] x.t = "text" -> "ValueError"
      [] OTHER -> "ok"

\* float(x) where it is defined: the number x is, or the number the string x spells.
PyFloat(x) == x.n

\* int(x) where it is defined.
PyInt(x) == x.n

\* x, where the code has x or 0.
OrZeroMissing(x) == x

\* x or 0
OrZero(x) == IF Truthy(x) THEN x ELSE Num(0)

\* size, where the code has abs(size).
AbsMissing(n) == n

Abs(n) == IF n < 0 THEN -n ELSE n

DigitStr == <<"0", "1", "2", "3", "4", "5", "6", "7", "8", "9">>

\* str(x): the decimal digits of a (one digit) integer, a string itself, "None" for None.
PyStr(x) ==
    CASE x.t = "none" -> "None"
      [] x.t = "num" -> DigitStr[x.n + 1]
      [] x.t = "numstr" -> DigitStr[x.n + 1]
      [] x.t = "text" -> x.s

\* What an operation hands back when it raises instead of returning.
Raised(e) == [kind |-> "Error", type |-> e]
NoValue == [kind |-> "NoValue"]
ReturnsNone == [kind |-> "None"]

-----------------------------------------------------------------------------
(* interface.py: the data model.                                           *)

\* side is "Buy", "Sell" or "None" (Python's None: no position).
Position(symbol, side, size, entry_price, unrealized_pnl) ==
    [kind |-> "Position", symbol |-> symbol, side |-> side, size |-> size,
     entry_price |-> entry_price, unrealized_pnl |-> unrealized_pnl]

\* price is [some |-> FALSE, v |-> 0] for None.
Absent == [some |-> FALSE, v |-> 0]
Some(v) == [some |-> TRUE, v |-> v]

Order(id, symbol, side, amount, price) ==
    [kind |-> "Order", id |-> id, symbol |-> symbol, side |-> side,
     amount |-> amount, price |-> price]

Ticker(symbol, last, bid, ask) ==
    [kind |-> "Ticker", symbol |-> symbol, last |-> last, bid |-> bid, ask |-> ask]

OHLCV(timestamp, open, high, low, close, volume) ==
    [kind |-> "OHLCV", timestamp |-> timestamp, open |-> open, high |-> high,
     low |-> low, close |-> close, volume |-> volume]

\* asks and bids are sequences of levels, each level the sequence <<price, amount>>.
Orderbook(asks, bids) == [kind |-> "Orderbook", asks |-> asks, bids |-> bids]

\* self.asks[0][1]
best_ask_amount(ob) ==
    IF Len(ob.asks) = 0 \/ Len(ob.asks[1]) < 2
    THEN Raised("IndexError")
    ELSE [kind |-> "float", v |-> ob.asks[1][2]]

\* self.asks[0][0]: IndexError when asks (or its first level) is empty.
best_ask(ob) ==
    IF Len(ob.asks) = 0 \/ Len(ob.asks[1]) = 0
    THEN Raised("IndexError")
    ELSE [kind |-> "float", v |-> ob.asks[1][1]]

\* self.bids[0][0]
best_bid(ob) ==
    IF Len(ob.bids) = 0 \/ Len(ob.bids[1]) = 0
    THEN Raised("IndexError")
    ELSE [kind |-> "float", v |-> ob.bids[1][1]]

-----------------------------------------------------------------------------
(* hyperliquid.py: how each operation reshapes the backend's response.     *)
(* Each operator is the code that runs after the operation's single await: *)
(* its value is what the coroutine returns, or Raised(e) when a conversion *)
(* raises.                                                                 *)

\* The first element of a sequence of outcomes that is not "ok", in evaluation order.
RECURSIVE FirstError(_)
FirstError(es) ==
    IF Len(es) = 0 THEN "ok"
    ELSE IF Head(es) # "ok" THEN Head(es)
    ELSE FirstError(Tail(es))

\* [float(ask[0]), float(ask[1])]: what evaluating it raises, if anything.
LevelError(level) ==
    IF Len(level) < 1 THEN "IndexError"
    ELSE IF FloatError(level[1]) # "ok" THEN FloatError(level[1])
    ELSE IF Len(level) < 2 THEN "IndexError"
    ELSE FloatError(level[2])

\* [[float(x[0]), float(x[1])] for x in reversed(levels)]
ConvertLevelsReversed(levels) ==
    [i \in 1..Len(levels) |->
        <<PyFloat(levels[Len(levels) + 1 - i][1]), PyFloat(levels[Len(levels) + 1 - i][2])>>]

\* [[float(x[0]), float(x[1])] for x in levels]
ConvertLevels(levels) ==
    [i \in 1..Len(levels) |-> <<PyFloat(levels[i][1]), PyFloat(levels[i][2])>>]

get_orderbook(symbol, response) ==
    LET err == FirstError([i \in 1..Len(response.asks) |-> LevelError(response.asks[i])]
                          \o [i \in 1..Len(response.bids) |-> LevelError(response.bids[i])])
    IN  IF err # "ok" THEN Raised(err)
        ELSE Orderbook(ConvertLevels(response.asks), ConvertLevels(response.bids))

get_ticker(symbol, response) ==
    LET err == FirstError(<<FloatError(response.last), FloatError(response.bid),
                            FloatError(response.ask)>>)
    IN  IF err # "ok" THEN Raised(err)
        ELSE Ticker(symbol, PyFloat(response.last), PyFloat(response.bid),
                    PyFloat(response.ask))

\* The three places get_position builds the flat Position.
NoPositions(symbol) == Position(symbol, "None", 0, 0, 0)
ZeroSize(symbol) == Position(symbol, "None", 0, 0, 0)
NotFound(symbol) == Position(symbol, "None", 0, 0, 0)

\* The two sides the other way round.
ConvertSideSwapped(side) == IF side = "long" THEN "Sell" ELSE "Buy"

\* "Buy" if pos["side"] == "long" else "Sell"
ConvertSide(side) == IF side = "long" THEN "Buy" ELSE "Sell"

\* The body of `if pos["symbol"] == symbol:` for the record pos.
FoundPosition(symbol, pos) ==
    IF FloatError(OrZero(pos.contracts)) # "ok"
    THEN Raised(FloatError(OrZero(pos.contracts)))
    ELSE LET size == PyFloat(OrZero(pos.contracts)) IN
         IF size = 0 THEN ZeroSize(symbol)
         ELSE LET err == FirstError(<<FloatError(OrZero(pos.entryPrice)),
                                      FloatError(OrZero(pos.unrealizedPnl))>>)
              IN  IF err # "ok" THEN Raised(err)
                  ELSE Position(symbol, ConvertSide(pos.side), Abs(size),
                                PyFloat(OrZero(pos.entryPrice)),
                                PyFloat(OrZero(pos.unrealizedPnl)))

\* for pos in positions: ... from the i-th record on, then the not-found return.
RECURSIVE ScanPositions(_, _, _)
ScanPositions(symbol, positions, i) ==
    IF i > Len(positions) THEN NotFound(symbol)
    ELSE IF positions[i].symbol = symbol THEN FoundPosition(symbol, positions[i])
    ELSE ScanPositions(symbol, positions, i + 1)

get_position(symbol, positions) ==
    IF Len(positions) = 0 THEN NoPositions(symbol)
    ELSE ScanPositions(symbol, positions, 1)

\* float(order["price"]) if order["price"] else None
OpenOrderPrice(price) == IF Truthy(price) THEN Some(PyFloat(price)) ELSE Absent

\* The two place_* operations with the price the backend reports.
place_limit_order_backend_price(symbol, side, amount, price, response) ==
    Order(PyStr(response.id), symbol, side, amount, OpenOrderPrice(response.price))

place_market_order_backend_price(symbol, side, amount, response) ==
    Order(PyStr(response.id), symbol, side, amount, OpenOrderPrice(response.price))

\* The Order the two place_* operations build from their arguments and the id.
place_limit_order(symbol, side, amount, price, response) ==
    Order(PyStr(response.id), symbol, side, amount, Some(price))

place_market_order(symbol, side, amount, response) ==
    Order(PyStr(response.id), symbol, side, amount, Absent)

cancel_order(order_id, symbol, response) == ReturnsNone

CandleError(candle) ==
    IF Len(candle) < 6 THEN "IndexError"
    ELSE FirstError([i \in 1..6 |-> FloatError(candle[i])])

get_ohlcv(symbol, timeframe, limit, response) ==
    LET err == FirstError([i \in 1..Len(response) |-> CandleError(response[i])])
    IN  IF err # "ok" THEN Raised(err)
        ELSE [kind |-> "list",
              items |-> [i \in 1..Len(response) |->
                            OHLCV(PyInt(response[i][1]), PyFloat(response[i][2]),
                                  PyFloat(response[i][3]), PyFloat(response[i][4]),
                                  PyFloat(response[i][5]), PyFloat(response[i][6]))]]

OpenOrderError(order) ==
    FirstError(<<FloatError(order.amount),
                 IF Truthy(order.price) THEN FloatError(order.price) ELSE "ok">>)

get_open_orders(symbol, response) ==
    LET err == FirstError([i \in 1..Len(response) |-> OpenOrderError(response[i])])
    IN  IF err # "ok" THEN Raised(err)
        ELSE [kind |-> "list",
              items |-> [i \in 1..Len(response) |->
                            Order(PyStr(response[i].id), response[i].symbol,
                                  response[i].side, PyFloat(response[i].amount),
                                  OpenOrderPrice(response[i].price))]]

close(response) == ReturnsNone

-----------------------------------------------------------------------------
(* The adapter instance, the backend handles and the coroutine frames.     *)

\* HyperliquidExchange.__init__: the one field of an instance.
NoAdapter == [live |-> FALSE, exchange |-> 0]
NewAdapter(exchange) == [live |-> TRUE, exchange |-> exchange]

\* close that drops its reference to the handle.
SelfAfterCloseClears(op, self) ==
    IF op = "close" THEN [self EXCEPT !.exchange = 0] ELSE self

\* The fields of the instance after one of its operations ran: no operation
\* assigns to self.
SelfAfter(op, self) == self

Pending == [status |-> "pending"]
Ok(value) == [status |-> "ok", value |-> value]
Failed(e) == [status |-> "failed", error |-> e]

IdleFrame ==
    [pc |-> "idle", op |-> "none", self |-> 0, args |-> NoValue, calls |-> <<>>,
     backend |-> Pending, result |-> NoValue, error |-> "none", read |-> NoValue]

\* A coroutine frame at its await: the backend call it made is in calls.
Awaiting(op, self, args, call) ==
    [pc |-> "awaiting", op |-> op, self |-> self, args |-> args, calls |-> <<call>>,
     backend |-> Pending, result |-> NoValue, error |-> "none", read |-> NoValue]

BackendCall(h, method, params) == [handle |-> h, method |-> method, params |-> params]

\* The operation with its await in a try whose handler passes.
OnBackendErrorSwallowed(f, e) ==
    [f EXCEPT !.pc = "returned", !.backend = Failed(e), !.result = ReturnsNone]

\* The awaited backend call raised e: no operation has a try, so e leaves the coroutine.
OnBackendError(f, e) ==
    [f EXCEPT !.pc = "raised", !.backend = Failed(e), !.error = e]

\* The code after the await, by operation.
Reshape(op, args, value) ==
    CASE op = "get_orderbook" -> get_orderbook(args.symbol, value)
      [] op = "get_ticker" -> get_ticker(args.symbol, value)
      [] op = "get_position" -> get_position(args.symbol, value)
      [] op = "place_limit_order" ->
            place_limit_order(args.symbol, args.side, args.amount, args.price, value)
      [] op = "place_market_order" ->
            place_market_order(args.symbol, args.side, args.amount, value)
      [] op = "cancel_order" -> cancel_order(args.order_id, args.symbol, value)
      [] op = "get_ohlcv" -> get_ohlcv(args.symbol, args.timeframe, args.limit, value)
      [] op = "get_open_orders" -> get_open_orders(args.symbol, value)
      [] op = "close" -> close(value)

\* The awaited backend call returned value: the rest of the coroutine runs.
OnBackendValue(f, value) ==
    LET r == Reshape(f.op, f.args, value) IN
    IF r.kind = "Error"
    THEN [f EXCEPT !.pc = "raised", !.backend = Ok(value), !.error = r.type]
    ELSE [f EXCEPT !.pc = "returned", !.backend = Ok(value), !.result = r]

-----------------------------------------------------------------------------
(* Actions: each operation up to its await, and the backend's answer.      *)

\* An operation of adapter a starts in frame t and suspends in its backend call.
Start(t, a, op, args, method, params) ==
    /\ task[t].pc = "idle"
    /\ adapter[a].live
    /\ task' = [task EXCEPT ![t] =
                  Awaiting(op, a, args, BackendCall(adapter[a].exchange, method, params))]
    /\ adapter' = [adapter EXCEPT ![a] = SelfAfter(op, adapter[a])]
    /\ UNCHANGED handle

\* create: ccxt_async.hyperliquid(config), then await exchange.load_markets().
CreateCall(t, h) ==
    /\ task[t].pc = "idle"
    /\ handle[h] = "unborn"
    /\ \A g \in Handles : g < h => handle[g] # "unborn"
    /\ handle' = [handle EXCEPT ![h] = "open"]
    /\ task' = [task EXCEPT ![t] =
                  Awaiting("create", 0, [exchange |-> h],
                           BackendCall(h, "load_markets", NoValue))]
    /\ UNCHANGED adapter

\* create: load_markets returned, return cls(exchange).
CreateReturn(t) ==
    /\ task[t].pc = "awaiting"
    /\ task[t].op = "create"
    /\ adapter' = [adapter EXCEPT ![task[t].args.exchange] =
                     NewAdapter(task[t].args.exchange)]
    /\ task' = [task EXCEPT ![t] =
                  [@ EXCEPT !.pc = "returned", !.backend = Ok(ReturnsNone),
                            !.result = [kind |-> "HyperliquidExchange",
                                        id |-> task[t].args.exchange]]]
    /\ UNCHANGED handle

\* create: load_markets raised e.
CreateFail(t, e) ==
    /\ task[t].pc = "awaiting"
    /\ task[t].op = "create"
    /\ task' = [task EXCEPT ![t] = OnBackendError(@, e)]
    /\ UNCHANGED <<handle, adapter>>

GetOrderbook(t, a, symbol) ==
    Start(t, a, "get_orderbook", [symbol |-> symbol],
          "fetch_order_book", [symbol |-> symbol])

GetTicker(t, a, symbol) ==
    Start(t, a, "get_ticker", [symbol |-> symbol], "fetch_ticker", [symbol |-> symbol])

GetPosition(t, a, symbol) ==
    Start(t, a, "get_position", [symbol |-> symbol],
          "fetch_positions", [symbols |-> <<symbol>>])

PlaceLimitOrder(t, a, symbol, side, amount, price) ==
    Start(t, a, "place_limit_order",
          [symbol |-> symbol, side |-> side, amount |-> amount, price |-> price],
          "create_order",
          [symbol |-> symbol, type |-> "limit", side |-> side, amount |-> amount,
           price |-> Some(price)])

\* The backend's create_order has price=None as its default.
PlaceMarketOrder(t, a, symbol, side, amount) ==
    Start(t, a, "place_market_order",
          [symbol |-> symbol, side |-> side, amount |-> amount],
          "create_order",
          [symbol |-> symbol, type |-> "market", side |-> side, amount |-> amount,
           price |-> Absent])

CancelOrder(t, a, order_id, symbol) ==
    Start(t, a, "cancel_order", [order_id |-> order_id, symbol |-> symbol],
          "cancel_order", [id |-> order_id, symbol |-> symbol])

GetOhlcv(t, a, symbol, timeframe, limit) ==
    Start(t, a, "get_ohlcv",
          [symbol |-> symbol, timeframe |-> timeframe, limit |-> limit],
          "fetch_ohlcv", [symbol |-> symbol, timeframe |-> timeframe, limit |-> limit])

GetOpenOrders(t, a, symbol) ==
    Start(t, a, "get_open_orders", [symbol |-> symbol],
          "fetch_open_orders", [symbol |-> symbol])

Close(t, a) ==
    Start(t, a, "close", NoValue, "close", NoValue)

\* The backend answers the call of frame t with value; a successful close has
\* released the handle.
Resume(t, value) ==
    /\ task[t].pc = "awaiting"
    /\ task[t].op # "create"
    /\ task' = [task EXCEPT ![t] = OnBackendValue(@, value)]
    /\ handle' = IF task[t].op = "close"
                 THEN [handle EXCEPT ![task[t].calls[1].handle] = "closed"]
                 ELSE handle
    /\ UNCHANGED adapter

\* The backend call of frame t raises e.
Fail(t, e) ==
    /\ task[t].pc = "awaiting"
    /\ task[t].op # "create"
    /\ task' = [task EXCEPT ![t] = OnBackendError(@, e)]
    /\ UNCHANGED <<handle, adapter>>

\* The caller takes the outcome of frame t; the frame is free again.
Collect(t) ==
    /\ task[t].pc \in {"returned", "raised"}
    /\ task' = [task EXCEPT ![t] = IdleFrame]
    /\ UNCHANGED <<handle, adapter>>

\* The caller reads a derived accessor of the Orderbook frame t returned.
ReadBest(t, prop) ==
    /\ task[t].pc = "returned"
    /\ task[t].op = "get_orderbook"
    /\ task' = [task EXCEPT ![t].read =
                  [prop |-> prop,
                   outcome |-> IF prop = "best_ask" THEN best_ask(task[t].result)
                               ELSE best_bid(task[t].result)]]
    /\ UNCHANGED <<handle, adapter>>

-----------------------------------------------------------------------------
(* The inputs the model draws: arguments, backend responses, errors.       *)

Symbols == {"BTC/USDC:USDC", "ETH/USDC:USDC"}
Errors == {"NetworkError", "AuthenticationError", "InvalidOrder"}

SeqsUpTo(S, n) == UNION {[1..k -> S] : k \in 0..n}

\* fetch_positions: records of either symbol, any side, sizes that are absent,
\* zero (as a number or a string), negative or positive.
PositionRecords ==
    {[symbol |-> s, side |-> d, contracts |-> c, entryPrice |-> p[1],
      unrealizedPnl |-> p[2]] :
        s \in Symbols, d \in {"long", "short", "none"},
        c \in {PyNone, Num(0), NumStr(0), Num(-2), NumStr(3)},
        p \in {<<PyNone, PyNone>>, <<NumStr(300), Num(-15)>>}}

PositionLists == SeqsUpTo(PositionRecords, MaxPositions)

\* create_order: ids of every type, with fields the adapter does not read.
OrderResponses ==
    {[id |-> i, price |-> p, status |-> st] :
        i \in {Num(7), NumStr(4), Text("0xabc"), PyNone},
        p \in {PyNone, Num(105)}, st \in {"open", "closed"}}

Sides == {"buy", "sell"}
Amounts == {1, 3}
Prices == {100, 101}

\* fetch_order_book: levels with numbers and number strings, either side possibly empty.
Levels == {<<p, a>> : p \in {Num(100), NumStr(101)}, a \in {Num(1), NumStr(2)}}

BookResponses ==
    {[asks |-> a, bids |-> b] :
        a \in SeqsUpTo(Levels, MaxLevels), b \in SeqsUpTo(Levels, MaxLevels)}

\* A few responses per operation, for the runs that are about the order of events.
SampleCandle == <<Num(1700), NumStr(10), Num(12), Num(9), NumStr(11), Num(5)>>
SampleOrder ==
    [id |-> Num(7), symbol |-> "BTC/USDC:USDC", side |-> "buy", amount |-> NumStr(1),
     price |-> PyNone]
SamplePosition ==
    [symbol |-> "BTC/USDC:USDC", side |-> "long", contracts |-> NumStr(3),
     entryPrice |-> NumStr(300), unrealizedPnl |-> Num(-15)]

SampleResponses(op) ==
    CASE op = "get_orderbook" ->
            {[asks |-> <<>>, bids |-> <<>>],
             [asks |-> <<<<Num(100), Num(1)>>>>, bids |-> <<<<NumStr(99), Num(2)>>>>]}
      [] op = "get_ticker" ->
            {[last |-> Num(100), bid |-> NumStr(99), ask |-> Num(101)],
             [last |-> PyNone, bid |-> Num(99), ask |-> Num(101)]}
      [] op = "get_position" -> {<<>>, <<SamplePosition>>}
      [] op = "place_limit_order" ->
            {[id |-> Num(7), price |-> Num(105), status |-> "open"],
             [id |-> Text("0xabc"), price |-> PyNone, status |-> "closed"]}
      [] op = "place_market_order" ->
            {[id |-> Num(7), price |-> Num(105), status |-> "open"],
             [id |-> Text("0xabc"), price |-> PyNone, status |-> "closed"]}
      [] op = "cancel_order" -> {[status |-> "canceled"]}
      [] op = "get_ohlcv" -> SeqsUpTo({SampleCandle}, MaxRows)
      [] op = "get_open_orders" -> SeqsUpTo({SampleOrder}, MaxRows)
      [] op = "close" -> {PyNone}
      [] OTHER -> {}

-----------------------------------------------------------------------------
(* Specifications.                                                         *)

\* Nothing constructed yet.
Init ==
    /\ handle = [h \in Handles |-> "unborn"]
    /\ adapter = [h \in Handles |-> NoAdapter]
    /\ task = [t \in Tasks |-> IdleFrame]

\* create has returned one instance.
InitReady ==
    /\ handle = [h \in Handles |-> IF h = 1 THEN "open" ELSE "unborn"]
    /\ adapter = [h \in Handles |-> IF h = 1 THEN NewAdapter(h) ELSE NoAdapter]
    /\ task = [t \in Tasks |-> IdleFrame]

\* Frame t is suspended in the backend call of an operation, which can be answered.
Answered(t) == task[t].pc = "awaiting" /\ task[t].op # "create"

\* The one frame of a caller that awaits each call before it makes the next.
Sequential == {t \in Tasks : \A u \in Tasks : t <= u}

\* Any operation with sample arguments.
AnyOperation(t, a) ==
    \/ \E s \in Symbols : GetOrderbook(t, a, s)
    \/ \E s \in Symbols : GetTicker(t, a, s)
    \/ \E s \in Symbols : GetPosition(t, a, s)
    \/ \E s \in Symbols : PlaceLimitOrder(t, a, s, "buy", 1, 100)
    \/ \E s \in Symbols : PlaceMarketOrder(t, a, s, "sell", 3)
    \/ \E s \in Symbols : CancelOrder(t, a, "7", s)
    \/ \E s \in Symbols : GetOhlcv(t, a, s, "1m", MaxRows)
    \/ \E s \in Symbols : GetOpenOrders(t, a, s)
    \/ Close(t, a)

\* One caller creates instances, uses them and closes them, one call at a time.
Next ==
    \/ \E t \in Sequential, h \in Handles : CreateCall(t, h)
    \/ \E t \in Sequential : CreateReturn(t)
    \/ \E t \in Sequential, e \in Errors : CreateFail(t, e)
    \/ \E t \in Sequential, a \in Handles : AnyOperation(t, a)
    \/ \E t \in Sequential : \E v \in SampleResponses(task[t].op) : Resume(t, v)
    \/ \E t \in Sequential, e \in Errors : Fail(t, e)
    \/ \E t \in Sequential : Collect(t)

Spec == Init /\ [][Next]_vars

\* Several operations in flight at once on one instance.
NextConcurrent ==
    \/ \E t \in Tasks, a \in Handles : AnyOperation(t, a)
    \/ \E t \in Tasks : \E v \in SampleResponses(task[t].op) : Resume(t, v)
    \/ \E t \in Tasks : Fail(t, "NetworkError")
    \/ \E t \in Tasks : Collect(t)

SpecConcurrent == InitReady /\ [][NextConcurrent]_vars

\* get_position on every symbol and every list of position records.
NextPosition ==
    \/ \E t \in Sequential, a \in Handles, s \in Symbols : GetPosition(t, a, s)
    \/ \E t \in Sequential : Answered(t) /\ \E v \in PositionLists : Resume(t, v)
    \/ \E t \in Sequential, e \in Errors : Fail(t, e)

SpecPosition == InitReady /\ [][NextPosition]_vars

\* The two place_* operations on every argument and every create_order response.
NextOrder ==
    \/ \E t \in Sequential, a \in Handles, s \in Symbols, d \in Sides,
          q \in Amounts, p \in Prices : PlaceLimitOrder(t, a, s, d, q, p)
    \/ \E t \in Sequential, a \in Handles, s \in Symbols, d \in Sides,
          q \in Amounts : PlaceMarketOrder(t, a, s, d, q)
    \/ \E t \in Sequential : Answered(t) /\ \E v \in OrderResponses : Resume(t, v)
    \/ \E t \in Sequential, e \in Errors : Fail(t, e)

SpecOrder == InitReady /\ [][NextOrder]_vars

\* get_orderbook on every book, and the reads of best_ask and best_bid.
NextBook ==
    \/ \E t \in Sequential, a \in Handles, s \in Symbols : GetOrderbook(t, a, s)
    \/ \E t \in Sequential : Answered(t) /\ \E v \in BookResponses : Resume(t, v)
    \/ \E t \in Sequential, e \in Errors : Fail(t, e)
    \/ \E t \in Sequential, prop \in {"best_ask", "best_bid"} : ReadBest(t, prop)

SpecBook == InitReady /\ [][NextBook]_vars

-----------------------------------------------------------------------------
(* The properties.                                                         *)

\* Frame t has returned from operation op.
Returned(t, op) == task[t].pc = "returned" /\ task[t].op = op

\* Frame t ran operation op and the backend answered its call (with a value).
Answer(t, op) == task[t].op = op /\ task[t].backend.status = "ok"

\* The number a raw value stands for, 0 when it is None.
NumberOf(x) == IF x.t = "none" THEN 0 ELSE x.n

\* The indexes of the records of positions whose symbol is s.
Matches(s, positions) == {i \in 1..Len(positions) : positions[i].symbol = s}

\* The first record of positions whose symbol is s (when there is one).
FirstMatch(s, positions) ==
    positions[CHOOSE i \in Matches(s, positions) :
                 \A j \in Matches(s, positions) : i <= j]

Flat(s) ==
    [kind |-> "Position", symbol |-> s, side |-> "None", size |-> 0,
     entry_price |-> 0, unrealized_pnl |-> 0]

\* C1: get_position returns the flat Position of the requested symbol, and raises
\* nothing, when the backend's list is empty, holds no record of the symbol, or
\* the first record of the symbol has a contract size that is zero or None.
C1_FlatSentinel ==
    \A t \in Tasks :
        Answer(t, "get_position") =>
            LET s == task[t].args.symbol
                ps == task[t].backend.value
            IN  (\/ Len(ps) = 0
                 \/ Matches(s, ps) = {}
                 \/ /\ Matches(s, ps) # {}
                    /\ NumberOf(FirstMatch(s, ps).contracts) = 0)
                => /\ task[t].pc = "returned"
                   /\ task[t].result = Flat(s)

\* C1 witness: a record of another symbol, then the symbol's record with contracts
\* "0" and side long; the flat Position came back.
C1_Witness ==
    \E t \in Tasks :
        /\ Returned(t, "get_position")
        /\ Len(task[t].backend.value) = 2
        /\ task[t].backend.value[1].symbol # task[t].args.symbol
        /\ task[t].backend.value[2].symbol = task[t].args.symbol
        /\ task[t].backend.value[2].contracts = NumStr(0)
        /\ task[t].backend.value[2].side = "long"
        /\ task[t].result.side = "None"

\* C2: every Position get_position returns has side None exactly when its size is
\* zero, and a size that is not negative.
C2_SideIffSize ==
    \A t \in Tasks :
        Returned(t, "get_position") =>
            /\ (task[t].result.side = "None") <=> (task[t].result.size = 0)
            /\ task[t].result.size >= 0

\* C2 witness: a record with a negative contract size was returned as a position.
C2_Witness ==
    \E t \in Tasks :
        /\ Returned(t, "get_position")
        /\ Matches(task[t].args.symbol, task[t].backend.value) # {}
        /\ FirstMatch(task[t].args.symbol, task[t].backend.value).contracts = Num(-2)
        /\ task[t].result.size = 2
        /\ task[t].result.side # "None"

\* C3: when the first record of the requested symbol has a non-zero contract size,
\* get_position returns Buy for long and Sell for short, the absolute contract size,
\* and entryPrice and unrealizedPnl as numbers (0 when None).
C3_OpenPosition ==
    \A t \in Tasks :
        Answer(t, "get_position") =>
            LET s == task[t].args.symbol
                ps == task[t].backend.value
            IN  (Matches(s, ps) # {} /\ NumberOf(FirstMatch(s, ps).contracts) # 0)
                => LET pos == FirstMatch(s, ps)
                       c == NumberOf(pos.contracts)
                   IN  /\ task[t].pc = "returned"
                       /\ pos.side = "long" => task[t].result.side = "Buy"
                       /\ pos.side = "short" => task[t].result.side = "Sell"
                       /\ task[t].result.size = (IF c < 0 THEN 0 - c ELSE c)
                       /\ task[t].result.entry_price = NumberOf(pos.entryPrice)
                       /\ task[t].result.unrealized_pnl = NumberOf(pos.unrealizedPnl)
                       /\ task[t].result.symbol = s

\* C3 witness: a short record of size -2 behind a record of the other symbol.
C3_Witness ==
    \E t \in Tasks :
        /\ Returned(t, "get_position")
        /\ Len(task[t].backend.value) = 2
        /\ task[t].backend.value[1].symbol # task[t].args.symbol
        /\ task[t].backend.value[2] =
              [symbol |-> task[t].args.symbol, side |-> "short", contracts |-> Num(-2),
               entryPrice |-> NumStr(300), unrealizedPnl |-> Num(-15)]
        /\ task[t].result.side = "Sell"
        /\ task[t].result.entry_price = 300

Operations ==
    {"get_orderbook", "get_ticker", "get_position", "place_limit_order",
     "place_market_order", "cancel_order", "get_ohlcv", "get_open_orders", "close"}

\* C4: when the backend call of an operation raises, the operation has made that
\* one call only, returns nothing and raises the backend's error itself; cancel_order
\* and close return None when the backend call succeeds.
C4_ErrorsPropagate ==
    \A t \in Tasks :
        /\ (task[t].op \in Operations /\ task[t].backend.status = "failed") =>
              /\ task[t].pc = "raised"
              /\ task[t].error = task[t].backend.error
              /\ task[t].result = NoValue
              /\ Len(task[t].calls) = 1
        /\ (task[t].op \in {"cancel_order", "close"} /\ task[t].backend.status = "ok") =>
              /\ task[t].pc = "returned"
              /\ task[t].result = [kind |-> "None"]

\* C4 witness: the backend refused a cancel_order with InvalidOrder.
C4_Witness ==
    \E t \in Tasks :
        /\ task[t].op = "cancel_order"
        /\ task[t].backend = Failed("InvalidOrder")
        /\ task[t].pc = "raised"

\* C5: place_market_order returns an Order without a price, with the symbol, side
\* and amount it was given and the backend's id as a string; its backend call is
\* create_order with type "market" and no price.
C5_MarketOrder ==
    \A t \in Tasks :
        /\ task[t].op = "place_market_order" /\ task[t].pc # "idle" =>
              /\ Len(task[t].calls) = 1
              /\ task[t].calls[1].method = "create_order"
              /\ task[t].calls[1].params.type = "market"
              /\ ~task[t].calls[1].params.price.some
        /\ Answer(t, "place_market_order") =>
              /\ task[t].pc = "returned"
              /\ ~task[t].result.price.some
              /\ task[t].result.symbol = task[t].args.symbol
              /\ task[t].result.side = task[t].args.side
              /\ task[t].result.amount = task[t].args.amount
              /\ task[t].result.id = PyStr(task[t].backend.value.id)

\* C5 witness: the backend reported a price and the numeric id 7.
C5_Witness ==
    \E t \in Tasks :
        /\ Returned(t, "place_market_order")
        /\ task[t].backend.value.price = Num(105)
        /\ task[t].backend.value.id = Num(7)
        /\ task[t].result.id = "7"

\* C6: place_limit_order returns an Order whose price is the price argument, with
\* the symbol, side and amount it was given and the backend's id as a string.
C6_LimitOrder ==
    \A t \in Tasks :
        Answer(t, "place_limit_order") =>
            /\ task[t].pc = "returned"
            /\ task[t].result.price = [some |-> TRUE, v |-> task[t].args.price]
            /\ task[t].result.symbol = task[t].args.symbol
            /\ task[t].result.side = task[t].args.side
            /\ task[t].result.amount = task[t].args.amount
            /\ task[t].result.id = PyStr(task[t].backend.value.id)

\* C6 witness: the backend reported another price than the one asked for.
C6_Witness ==
    \E t \in Tasks :
        /\ Returned(t, "place_limit_order")
        /\ task[t].args.price = 100
        /\ task[t].backend.value.price = Num(105)
        /\ task[t].backend.value.id = Text("0xabc")
        /\ task[t].result.id = "0xabc"

\* C7: best_ask is the price of the first ask and best_bid the price of the first
\* bid; reading either one of an empty side raises, whatever the other side holds.
C7_BestOfBook ==
    \A t \in Tasks :
        (Returned(t, "get_orderbook") /\ task[t].read # NoValue) =>
            LET ob == task[t].result
                side == IF task[t].read.prop = "best_ask" THEN ob.asks ELSE ob.bids
            IN  /\ Len(side) > 0 =>
                      task[t].read.outcome = [kind |-> "float", v |-> side[1][1]]
                /\ Len(side) = 0 => task[t].read.outcome.kind = "Error"

\* C7 witness: best_ask of a book with no asks and some bids was read, and raised.
C7_Witness ==
    \E t \in Tasks :
        /\ Returned(t, "get_orderbook")
        /\ task[t].read # NoValue
        /\ task[t].read.prop = "best_ask"
        /\ Len(task[t].result.asks) = 0
        /\ Len(task[t].result.bids) > 0
        /\ task[t].read.outcome.kind = "Error"

\* C8: get_orderbook returns as many asks and bids as the backend gave, the i-th
\* of each the numbers of the backend's i-th price and amount, so that best_ask and
\* best_bid are the prices of the backend's first ask and first bid.
C8_BookPreserved ==
    \A t \in Tasks :
        Answer(t, "get_orderbook") =>
            LET r == task[t].backend.value
                ob == task[t].result
            IN  /\ task[t].pc = "returned"
                /\ Len(ob.asks) = Len(r.asks)
                /\ Len(ob.bids) = Len(r.bids)
                /\ \A i \in 1..Len(r.asks) :
                      ob.asks[i] = <<NumberOf(r.asks[i][1]), NumberOf(r.asks[i][2])>>
                /\ \A i \in 1..Len(r.bids) :
                      ob.bids[i] = <<NumberOf(r.bids[i][1]), NumberOf(r.bids[i][2])>>
                /\ Len(r.asks) > 0 => best_ask(ob).v = NumberOf(r.asks[1][1])
                /\ Len(r.bids) > 0 => best_bid(ob).v = NumberOf(r.bids[1][1])

\* C8 witness: two asks that are not in ascending order came back in the backend's order.
C8_Witness ==
    \E t \in Tasks :
        /\ Returned(t, "get_orderbook")
        /\ Len(task[t].backend.value.asks) = 2
        /\ task[t].backend.value.asks[1][1] = NumStr(101)
        /\ task[t].backend.value.asks[2][1] = Num(100)
        /\ task[t].result.asks[1][1] = 101
        /\ task[t].result.asks[2][1] = 100

\* Handle h belongs to an instance the caller holds.
Owned(h) == \E a \in Handles : adapter[a].live /\ adapter[a].exchange = h

\* A create call that constructed handle h has not finished yet.
InCreate(h) ==
    \E t \in Tasks :
        task[t].pc = "awaiting" /\ task[t].op = "create" /\ task[t].args.exchange = h

\* C9: once the calls made so far are over, every handle create has constructed
\* is closed or belongs to an instance that was returned to the caller.
C9_NoLeakedHandle ==
    \A h \in Handles :
        (handle[h] = "open" /\ ~InCreate(h)) => Owned(h)

\* The instance of the concurrent runs, as create built it.
TheInstance == CHOOSE a \in Handles : \A b \in Handles : a <= b

\* Frame t's outcome is what its own arguments and its own response give.
OwnOutcome(t) ==
    /\ task[t].pc = "returned" =>
          /\ task[t].backend.status = "ok"
          /\ task[t].result = Reshape(task[t].op, task[t].args, task[t].backend.value)
    /\ task[t].pc = "raised" /\ task[t].backend.status = "failed" =>
          task[t].error = task[t].backend.error

\* Two frames ran the same operation with the same arguments and got the same answer.
SameCall(t, u) ==
    /\ task[t].op = task[u].op
    /\ task[t].pc \in {"returned", "raised"}
    /\ task[u].pc \in {"returned", "raised"}
    /\ task[t].args = task[u].args
    /\ task[t].backend = task[u].backend

\* C10: with operations of one instance in flight together, the instance's field
\* stays as the constructor set it, every call goes to that handle, and the outcome
\* of each operation is given by its own arguments and its own response.
C10_NoSharedState ==
    /\ adapter[TheInstance] = [live |-> TRUE, exchange |-> TheInstance]
    /\ \A t \in Tasks :
          /\ task[t].pc # "idle" => task[t].calls[1].handle = TheInstance
          /\ OwnOutcome(t)
    /\ \A t, u \in Tasks :
          SameCall(t, u) =>
              /\ task[t].pc = task[u].pc
              /\ task[t].result = task[u].result
              /\ task[t].error = task[u].error

\* C10 witness: two frames hold get_position calls of the instance for different
\* symbols, the same response answered both, and each got the Position of its own symbol.
C10_Witness ==
    \E t, u \in Tasks :
        /\ t # u
        /\ Returned(t, "get_position")
        /\ Returned(u, "get_position")
        /\ task[t].args.symbol # task[u].args.symbol
        /\ task[t].backend.value = <<SamplePosition>>
        /\ task[u].backend.value = <<SamplePosition>>
        /\ task[t].result.side = "Buy"
        /\ task[u].result.side = "None"

====
